---- MODULE Spec2Model ----
(***************************************************************************)
(* Model of the Client repository of API-rust-prueba:                      *)
(*   src/src/clients/adapters.rs  ClientRepository (add, update,           *)
(*       logically_delete, permanently_delete, search_by, search_by_id,    *)
(*       count_clients, calculate_total_pages)                             *)
(*   src/src/clients/entities.rs  Client, ClientCriteria                   *)
(*   src/src/adapters.rs          DieselConnector::establish_connection    *)
(*   src/src/entities.rs          Search                                   *)
(*                                                                         *)
(* Option<T> is modelled as a set with at most one element: None is {}     *)
(* and Some(v) is {v}.  A username is modelled by its rank in the store's  *)
(* collation order (an integer), a password and a birth date by a string.  *)
(***************************************************************************)
EXTENDS Integers, Sequences, FiniteSets, TLC

VARIABLES
    store,      \* the rows of the clients table
    last,       \* the last call of a caller-facing operation and what it returned
    scan,       \* a caller paging through search_by: its criteria, the pages it got
    calc,       \* the last call of calculate_total_pages and what it returned
    query       \* a search_by call between its two queries: what it loaded

vars == <<store, last, scan, calc, query>>

(***************************************************************************)
(* Bounds of the model.                                                    *)
(***************************************************************************)
MaxId == 2          \* identifiers the store hands out are 1..MaxId
MaxRows == 32       \* rows of the tables search_by is paged over
MaxTies == 2        \* rows of such a table that share one username
MaxPage == 10       \* page numbers passed to search_by are 0..MaxPage
WordBits == 7       \* bits of usize and i64 in the model (64 in the program)

(***************************************************************************)
(* Program constants.                                                      *)
(***************************************************************************)
I32Max == 2147483647
PageSize == 15

(***************************************************************************)
(* Values.                                                                 *)
(***************************************************************************)
None == {}
Some(v) == {v}

Ids == 1..MaxId
\* The column values the callers pass: a username (its rank in the collation
\* order), a password and a birth date.
Profiles ==
    {[username |-> 1, pwd |-> "password1", birth_date |-> "1990-01-01"],
     [username |-> 2, pwd |-> "password2", birth_date |-> "1992-02-02"]}

\* struct Client: client_id is Option<i32>, the rest is mandatory.
Client ==
    {[client_id |-> i, active |-> a, username |-> p.username,
      pwd |-> p.pwd, birth_date |-> p.birth_date] :
        i \in {None} \cup {Some(k) : k \in Ids}, a \in BOOLEAN, p \in Profiles}

\* Identifiable::id for Client
id(item) == item.client_id

\* SoftDeletable::is_deleted for Client: &self.active
is_deleted(item) == item.active

\* SoftDeletable::set_deleted for Client: self.active = deleted
set_deleted(item, deleted) == [item EXCEPT !.active = deleted]

\* The conditions a call can meet when it asks for a connection.
ConnConds == {"ok", "no_config", "unreachable"}

\* DieselConnector::establish_connection: env::var(..).expect(..) panics when
\* DATABASE_URL is not set, unwrap_or_else(|_| panic!(..)) panics when the
\* store cannot be reached; otherwise a connection is returned.
establish_connection(cond) ==
    IF cond = "ok" THEN "connection" ELSE "panic"

\* The identifiers of the stored rows.
StoredIds(st) == {i \in Ids : \E r \in st : r.client_id = Some(i)}

\* The identifiers the store may give a row inserted without one: any
\* identifier no stored row has.
FreshIds(st) == Ids \ StoredIds(st)

\* client_id is the key of the table: the store rejects the insert of a row
\* whose identifier a stored row has.
KeyTaken(st, item) == id(item) \subseteq StoredIds(st)

\* struct ClientCriteria: every field is an Option.
AllAbsent ==
    [client_id |-> None, active |-> None, username |-> None,
     pwd |-> None, birth_date |-> None]

\* struct Search<Criteria>; result holds the serialized rows of the page in
\* the order the query returned them.
NoSearch == [total_pages |-> 0, page |-> 0, criteria |-> AllAbsent, result |-> <<>>]

NoItem ==
    [client_id |-> None, active |-> FALSE, username |-> 0,
     pwd |-> "", birth_date |-> ""]

\* The identifier of the stored row that the call before this one logically
\* deleted, if that call was a successful logically_delete of a stored row.
Follows ==
    IF /\ last.op = "logically_delete"
       /\ last.result = "Ok"
       /\ id(last.item) \subseteq StoredIds(store)
    THEN id(last.item)
    ELSE None

\* What a call left behind: the operation and its arguments, the condition
\* it met, whether it returned Ok, Err or panicked, the value it returned,
\* the number of establish_connection calls it made, for add the
\* identifier of the inserted row, and what the call before it was.
Call(op, item, arg, cond, result, err, found, conns, assigned) ==
    [op |-> op, item |-> item, arg |-> arg, crit |-> AllAbsent, page |-> 0,
     cond |-> cond, checks |-> FALSE,
     result |-> result, err |-> err, found |-> found, search |-> NoSearch,
     conns |-> conns, assigned |-> assigned, follows |-> Follows]

NoCall ==
    [op |-> "none", item |-> NoItem, arg |-> 0, crit |-> AllAbsent, page |-> 0,
     cond |-> "ok", checks |-> FALSE,
     result |-> "Ok", err |-> "", found |-> None, search |-> NoSearch,
     conns |-> 0, assigned |-> None, follows |-> None]

\* The call returns: it becomes the last call, and nothing else is touched.
Returns(call) ==
    /\ last' = call
    /\ UNCHANGED <<scan, calc, query>>

(***************************************************************************)
(* The statements the repository executes on the clients table.            *)
(***************************************************************************)

InsertIntoAlwaysActive(st, item, nid) ==
    st \cup {[item EXCEPT !.client_id = Some(nid), !.active = TRUE]}

\* insert_into(clients::table).values(item): the row takes the item's
\* columns; nid is the identifier the row ends up with.
InsertInto(st, item, nid) ==
    st \cup {[item EXCEPT !.client_id = Some(nid)]}

\* delete(clients::table.filter(clients::client_id.eq(item.id())))
DeleteWhereId(st, i) ==
    {r \in st : r.client_id # Some(i)}

UpdateOrInsertWhereId(st, i, item) ==
    IF \E r \in st : r.client_id = Some(i)
    THEN {IF r.client_id = Some(i)
             THEN [r EXCEPT !.active = item.active,
                            !.username = item.username,
                            !.pwd = item.pwd,
                            !.birth_date = item.birth_date]
             ELSE r : r \in st}
    ELSE st \cup {[item EXCEPT !.client_id = Some(i)]}

UpdateWhereIdKeepingPwd(st, i, item) ==
    {IF r.client_id = Some(i)
        THEN [r EXCEPT !.active = item.active,
                       !.username = item.username,
                       !.birth_date = item.birth_date]
        ELSE r : r \in st}

\* update(clients::table.filter(client_id.eq(id))).set((active, username,
\* pwd, birth_date))
UpdateWhereId(st, i, item) ==
    {IF r.client_id = Some(i)
        THEN [r EXCEPT !.active = item.active,
                       !.username = item.username,
                       !.pwd = item.pwd,
                       !.birth_date = item.birth_date]
        ELSE r : r \in st}

SetInactiveEverywhere(st, i) ==
    {[r EXCEPT !.active = FALSE] : r \in st}

SetInactiveByRemoving(st, i) ==
    {r \in st : r.client_id # Some(i)}

\* diesel::update(clients::table.filter(client_id.eq(id)))
\*     .set(clients::active.eq(false))
SetInactiveWhereId(st, i) ==
    {IF r.client_id = Some(i) THEN [r EXCEPT !.active = FALSE] ELSE r : r \in st}

\* clients::table.into_boxed().filter(clients::client_id.eq(id)).load()
LoadWhereId(st, i) ==
    {r \in st : r.client_id = Some(i)}

\* `id as i32` of a usize: the low 32 bits as a two's complement number.
\* Every usize the model passes is below 2^31, where the cast keeps it.
AsI32(u) ==
    IF u <= I32Max THEN u ELSE u - I32Max - I32Max - 2

(***************************************************************************)
(* The caller-facing operations.                                           *)
(***************************************************************************)

\* Adder::add
Add(item, cond) ==
    \/ /\ establish_connection(cond) = "panic"
       /\ Returns(Call("add", item, 0, cond, "Panic", "", None, 1, None))
       /\ UNCHANGED store
    \/ /\ establish_connection(cond) = "connection"
       /\ id(item) = None
       /\ \E nid \in FreshIds(store) :
            /\ store' = InsertInto(store, item, nid)
            /\ Returns(Call("add", item, 0, cond, "Ok", "", None, 1, Some(nid)))
    \/ /\ establish_connection(cond) = "connection"
       /\ id(item) # None
       /\ KeyTaken(store, item)
       /\ Returns(Call("add", item, 0, cond, "Err", "StorageError", None, 1, None))
       /\ UNCHANGED store
    \/ /\ establish_connection(cond) = "connection"
       /\ id(item) # None
       /\ ~KeyTaken(store, item)
       /\ \E nid \in id(item) :
            /\ store' = InsertInto(store, item, nid)
            /\ Returns(Call("add", item, 0, cond, "Ok", "", None, 1, Some(nid)))

\* PermanentlyDeleter::permanently_delete
PermanentlyDelete(item, cond) ==
    \/ /\ id(item) = None
       /\ Returns(Call("permanently_delete", item, 0, cond, "Err", "NoIDError",
                       None, 0, None))
       /\ UNCHANGED store
    \/ /\ id(item) # None
       /\ establish_connection(cond) = "panic"
       /\ Returns(Call("permanently_delete", item, 0, cond, "Panic", "", None, 1, None))
       /\ UNCHANGED store
    \/ /\ id(item) # None
       /\ establish_connection(cond) = "connection"
       /\ \E i \in id(item) : store' = DeleteWhereId(store, i)
       /\ Returns(Call("permanently_delete", item, 0, cond, "Ok", "", None, 1, None))

UpdateConnectsFirst(item, cond) ==
    \/ /\ establish_connection(cond) = "panic"
       /\ Returns(Call("update", item, 0, cond, "Panic", "", None, 1, None))
       /\ UNCHANGED store
    \/ /\ establish_connection(cond) = "connection"
       /\ id(item) = None
       /\ Returns(Call("update", item, 0, cond, "Err", "NoIDError", None, 1, None))
       /\ UNCHANGED store
    \/ /\ establish_connection(cond) = "connection"
       /\ id(item) # None
       /\ \E i \in id(item) : store' = UpdateWhereId(store, i, item)
       /\ Returns(Call("update", item, 0, cond, "Ok", "", None, 1, None))

\* Updater::update
Update(item, cond) ==
    \/ /\ id(item) = None
       /\ Returns(Call("update", item, 0, cond, "Err", "NoIDError", None, 0, None))
       /\ UNCHANGED store
    \/ /\ id(item) # None
       /\ establish_connection(cond) = "panic"
       /\ Returns(Call("update", item, 0, cond, "Panic", "", None, 1, None))
       /\ UNCHANGED store
    \/ /\ id(item) # None
       /\ establish_connection(cond) = "connection"
       /\ \E i \in id(item) : store' = UpdateWhereId(store, i, item)
       /\ Returns(Call("update", item, 0, cond, "Ok", "", None, 1, None))

\* LogicalDeleter::logically_delete
LogicallyDelete(item, cond) ==
    \/ /\ id(item) = None
       /\ Returns(Call("logically_delete", item, 0, cond, "Err", "NoIDError",
                       None, 0, None))
       /\ UNCHANGED store
    \/ /\ id(item) # None
       /\ establish_connection(cond) = "panic"
       /\ Returns(Call("logically_delete", item, 0, cond, "Panic", "", None, 1, None))
       /\ UNCHANGED store
    \/ /\ id(item) # None
       /\ establish_connection(cond) = "connection"
       /\ \E i \in id(item) : store' = SetInactiveWhereId(store, i)
       /\ Returns(Call("logically_delete", item, 0, cond, "Ok", "", None, 1, None))

\* result.get(0): the first loaded row, if any.
First(rows) ==
    IF rows = {} THEN None ELSE Some(CHOOSE r \in rows : TRUE)

\* What search_by_id returns inside Ok when the connection is there.
SearchByIdFound(st, arg) ==
    First(LoadWhereId(st, AsI32(arg)))

\* Finder::search_by_id
SearchById(arg, cond) ==
    \/ /\ establish_connection(cond) = "panic"
       /\ Returns(Call("search_by_id", NoItem, arg, cond, "Panic", "", None, 1, None))
       /\ UNCHANGED store
    \/ /\ establish_connection(cond) = "connection"
       /\ Returns(Call("search_by_id", NoItem, arg, cond, "Ok", "",
                       SearchByIdFound(store, arg), 1, None))
       /\ UNCHANGED store

(***************************************************************************)
(* Machine integers.  usize and i64 are WordBits wide in the model; the     *)
(* program's are 64 bits wide.  An operation that leaves the type's range   *)
(* panics in a build with overflow checks and wraps in a build without.     *)
(***************************************************************************)
WordMod == 2 ^ WordBits
I64Max == 2 ^ (WordBits - 1) - 1
I64Min == 0 - 2 ^ (WordBits - 1)
UsizeMax == WordMod - 1

FitsUsize(x) == 0 <= x /\ x <= UsizeMax
FitsI64(x) == I64Min <= x /\ x <= I64Max
WrapUsize(x) == x % WordMod
WrapI64(x) == ((x - I64Min) % WordMod) + I64Min

\* `u as i64` of a usize and `i as usize` of an i64: the same bits.
AsI64(u) == WrapI64(u)
AsUsize(i) == WrapUsize(i)

\* i64 division truncates toward zero (the divisor is positive here).
TruncDiv(a, b) ==
    IF a >= 0 THEN a \div b ELSE 0 - ((0 - a) \div b)

\* ClientRepository::page_size
page_size == PageSize

\* Whether (total_count + page_size - 1) leaves i64 on the way.
CalcOverflows(total_count, page_size_) ==
    /\ page_size_ > 0
    /\ \/ ~FitsI64(total_count + page_size_)
       \/ ~FitsI64(WrapI64(total_count + page_size_) - 1)

\* ClientRepository::calculate_total_pages, with wrapping arithmetic.
calculate_total_pages(total_count, page_size_) ==
    IF page_size_ <= 0
    THEN 0
    ELSE TruncDiv(WrapI64(WrapI64(total_count + page_size_) - 1), page_size_)

(***************************************************************************)
(* search_by and count_clients.                                            *)
(***************************************************************************)

MatchesEveryField(r, c) ==
    /\ c.client_id = None \/ c.client_id = r.client_id
    /\ c.active \subseteq {r.active}
    /\ c.username \subseteq {r.username}
    /\ c.pwd \subseteq {r.pwd}
    /\ c.birth_date \subseteq {r.birth_date}

\* The filters search_by and count_clients both add to the query: one for
\* each of criteria.active, criteria.username, criteria.birth_date that is
\* Some.
Matches(r, c) ==
    /\ c.active \subseteq {r.active}
    /\ c.username \subseteq {r.username}
    /\ c.birth_date \subseteq {r.birth_date}

Filtered(st, c) == {r \in st : Matches(r, c)}

\* ClientRepository::count_clients: query.count()
count_clients(st, c) == Cardinality(Filtered(st, c))

RowId(r) == CHOOSE i \in r.client_id : TRUE

\* The orders in which a query may return two rows of one username: the
\* ORDER BY names the username alone, so the store is free to pick.
TieOrders == {"id_asc", "id_desc"}

\* query.order(clients::username.asc()): q comes before r.
Before(q, r, tie) ==
    \/ q.username < r.username
    \/ /\ q.username = r.username
       /\ IF tie = "id_asc" THEN RowId(q) < RowId(r) ELSE RowId(q) > RowId(r)

\* The sequence seq, which is in the order of the query, with the row r put
\* in its place.
Insert(r, seq, tie) ==
    LET k == Cardinality({j \in 1..Len(seq) : Before(seq[j], r, tie)})
    IN SubSeq(seq, 1, k) \o <<r>> \o SubSeq(seq, k + 1, Len(seq))

\* The rows in the order of the query, as a sequence.
RECURSIVE Ordered(_, _)
Ordered(rows, tie) ==
    IF rows = {}
    THEN <<>>
    ELSE LET r == CHOOSE x \in rows : TRUE
         IN Insert(r, Ordered(rows \ {r}, tie), tie)

\* query.limit(limit).offset(offset): a negative OFFSET counts as 0.
LimitOffset(seq, limit, offset) ==
    LET off == IF offset < 0 THEN 0 ELSE offset
        end == IF off + limit < Len(seq) THEN off + limit ELSE Len(seq)
    IN IF off >= Len(seq) THEN <<>> ELSE SubSeq(seq, off + 1, end)

OffsetOfPageNumber(page_number) ==
    WrapUsize(WrapUsize(page_number) * page_size)

\* Whether (page_number - 1) * page_size leaves usize on the way.
OffsetOverflows(page_number) ==
    \/ ~FitsUsize(page_number - 1)
    \/ ~FitsUsize(WrapUsize(page_number - 1) * page_size)

\* let offset = (page_number - 1) * Self::page_size(), with wrapping
\* arithmetic.
Offset(page_number) ==
    WrapUsize(WrapUsize(page_number - 1) * page_size)

\* Search::new
Search(page, total_pages, criteria, result) ==
    [total_pages |-> total_pages, page |-> page, criteria |-> criteria,
     result |-> result]

SearchCall(c, page_number, cond, checks, result, search, conns) ==
    [Call("search_by", NoItem, 0, cond, result, "", None, conns, None)
        EXCEPT !.crit = c, !.page = page_number, !.checks = checks,
               !.search = search]

\* Finder::search_by on the table st: what the call leaves behind.  checks
\* says whether the build checks for overflow, tie is the order the store
\* returns rows of one username in.
search_by(st, c, page_number, cond, checks, tie) ==
    IF checks /\ OffsetOverflows(page_number)
    THEN SearchCall(c, page_number, cond, checks, "Panic", NoSearch, 0)
    ELSE IF establish_connection(cond) = "panic"
    THEN SearchCall(c, page_number, cond, checks, "Panic", NoSearch, 1)
    ELSE
      LET result == LimitOffset(Ordered(Filtered(st, c), tie),
                                AsI64(page_size), AsI64(Offset(page_number)))
          total_count == count_clients(st, c)
          total_pages == calculate_total_pages(total_count, AsI64(page_size))
      IN IF checks /\ CalcOverflows(total_count, AsI64(page_size))
         THEN SearchCall(c, page_number, cond, checks, "Panic", NoSearch, 1)
         ELSE SearchCall(c, page_number, cond, checks, "Ok",
                         Search(page_number, AsUsize(total_pages), c, result), 1)

\* A call of search_by.
SearchBy(c, page_number, cond, checks, tie) ==
    /\ last' = search_by(store, c, page_number, cond, checks, tie)
    /\ UNCHANGED <<store, scan, calc, query>>

\* The criteria the callers pass.
Criteria ==
    [client_id : {None, Some(1)},
     active : {None, Some(TRUE)},
     username : {None, Some(1)},
     pwd : {None, Some("password1")},
     birth_date : {None, Some("1990-01-01")}]

\* The criteria with at most one field present.
PresentFields(c) ==
    {f \in {"client_id", "active", "username", "pwd", "birth_date"} : c[f] # None}

SingleFieldCriteria == {c \in Criteria : Cardinality(PresentFields(c)) <= 1}

\* A caller's paging session: the criteria it searches by, the page number of
\* its first call, the rows of the pages it got, in order, and the orders the
\* store returned rows of one username in.
NoScan == [crit |-> AllAbsent, first |-> 0, pages |-> <<>>, ties |-> {}]

NoCalc == [total_count |-> 0, page_size |-> 0, checks |-> FALSE,
           result |-> "none", value |-> 0]

\* No search_by call is between its two queries.  result holds the rows the
\* last such call loaded and matched the number of rows its criteria
\* selected in the table they were loaded from.
NoQuery == [pc |-> "idle", crit |-> AllAbsent, page |-> 0, checks |-> FALSE,
            result |-> <<>>, matched |-> 0]

Init ==
    /\ store = {}
    /\ last = NoCall
    /\ scan = NoScan
    /\ calc = NoCalc
    /\ query = NoQuery

\* The calls made with an item: every item when the connection is there, and
\* one item for each identifier when it is not.
ItemCalls ==
    {<<item, "ok">> : item \in Client}
        \cup {<<item, cond>> :
                 item \in {i \in Client : i.active /\ i.username = 1},
                 cond \in ConnConds \ {"ok"}}

\* The calls of search_by on the small table: a criteria with at most one field
\* present and page 0 or 1 when the connection is there, no criteria when it
\* is not.
SearchCalls ==
    {<<c, page_number, "ok", checks, tie>> :
        c \in SingleFieldCriteria, page_number \in 0..1, checks \in BOOLEAN,
        tie \in TieOrders}
        \cup {<<AllAbsent, page_number, cond, checks, "id_asc">> :
                 page_number \in 0..1, cond \in ConnConds \ {"ok"},
                 checks \in BOOLEAN}

Next ==
    \/ \E in \in ItemCalls : Add(in[1], in[2])
    \/ \E in \in ItemCalls : Update(in[1], in[2])
    \/ \E in \in ItemCalls : LogicallyDelete(in[1], in[2])
    \/ \E in \in ItemCalls : PermanentlyDelete(in[1], in[2])
    \/ \E arg \in 0..(MaxId + 1), cond \in ConnConds : SearchById(arg, cond)
    \/ \E in \in SearchCalls : SearchBy(in[1], in[2], in[3], in[4], in[5])

Spec == Init /\ [][Next]_vars

(***************************************************************************)
(* SpecSearch: search_by paged over a table that does not change.          *)
(***************************************************************************)

\* A table of n rows with identifiers 1..n in which ties rows share each
\* username and the usernames fall as the identifiers rise.
Table(n, ties) ==
    {[client_id |-> Some(i),
      active |-> (i % 3 # 0),
      username |-> ((n - i) \div ties) + 1,
      pwd |-> IF i % 2 = 0 THEN "password1" ELSE "password2",
      birth_date |-> IF i % 5 = 0 THEN "1992-02-02" ELSE "1990-01-01"] :
        i \in 1..n}

InitSearch ==
    /\ store \in {Table(n, ties) : n \in 0..MaxRows, ties \in 1..MaxTies}
    /\ last = NoCall
    /\ scan \in {[NoScan EXCEPT !.crit = c] : c \in Criteria}
    /\ calc = NoCalc
    /\ query = NoQuery

\* The first call of the session: any page number, any condition.
FirstCall(page_number, cond, checks, tie) ==
    /\ last.op = "none"
    /\ LET ret == search_by(store, scan.crit, page_number, cond, checks, tie)
       IN /\ last' = ret
          /\ scan' = [scan EXCEPT
                         !.first = page_number,
                         !.pages = IF ret.result = "Ok"
                                   THEN <<ret.search.result>> ELSE <<>>,
                         !.ties = {tie}]
    /\ UNCHANGED <<store, calc, query>>

\* The caller asks for the page after the one it got, as long as the Search
\* it got says there is one.
NextPageCall(checks, tie) ==
    /\ last.op = "search_by"
    /\ last.result = "Ok"
    /\ last.page < last.search.total_pages
    /\ LET ret == search_by(store, scan.crit, last.page + 1, "ok", checks, tie)
       IN /\ last' = ret
          /\ scan' = [scan EXCEPT
                         !.pages = IF ret.result = "Ok"
                                   THEN Append(@, ret.search.result) ELSE @,
                         !.ties = @ \cup {tie}]
    /\ UNCHANGED <<store, calc, query>>

\* The first calls: every page number when the connection is there, page 0
\* and 1 when it is not.
FirstCalls ==
    {<<page_number, "ok", checks, tie>> :
        page_number \in 0..MaxPage, checks \in BOOLEAN, tie \in TieOrders}
        \cup {<<page_number, cond, checks, "id_asc">> :
                 page_number \in 0..1, cond \in ConnConds \ {"ok"},
                 checks \in BOOLEAN}

NextSearch ==
    \/ \E in \in FirstCalls : FirstCall(in[1], in[2], in[3], in[4])
    \/ \E checks \in BOOLEAN, tie \in TieOrders : NextPageCall(checks, tie)

SpecSearch == InitSearch /\ [][NextSearch]_vars

(***************************************************************************)
(* SpecCalc: calculate_total_pages applied to drawn arguments.             *)
(***************************************************************************)

\* The arguments of the call are drawn, and the build it runs in.
InitCalc ==
    /\ store = {}
    /\ last = NoCall
    /\ scan = NoScan
    /\ calc \in {[NoCalc EXCEPT !.total_count = total_count,
                               !.page_size = page_size_,
                               !.checks = checks] :
                    total_count \in (0 - 2)..I64Max,
                    page_size_ \in (0 - 2)..I64Max,
                    checks \in BOOLEAN}
    /\ query = NoQuery

\* The call of calculate_total_pages(calc.total_count, calc.page_size).
CalculateTotalPages ==
    /\ calc.result = "none"
    /\ calc' = [calc EXCEPT
                   !.result = IF calc.checks
                                 /\ CalcOverflows(calc.total_count, calc.page_size)
                              THEN "Panic" ELSE "Ok",
                   !.value = IF calc.checks
                                /\ CalcOverflows(calc.total_count, calc.page_size)
                             THEN 0
                             ELSE calculate_total_pages(calc.total_count,
                                                        calc.page_size)]
    /\ UNCHANGED <<store, last, scan, query>>

NextCalc == CalculateTotalPages

SpecCalc == InitCalc /\ [][NextCalc]_vars

(***************************************************************************)
(* SpecRace: a search_by call whose two queries other callers' writes may  *)
(* come between.  Every call has its own connection and every statement is *)
(* a transaction of its own, so a write of another caller may commit after *)
(* query.load and before count_clients.                                    *)
(***************************************************************************)

\* search_by up to and including query.load: the offset, the connection and
\* the rows of the page.
SearchByLoad(c, page_number, cond, checks, tie) ==
    /\ query.pc = "idle"
    /\ \/ /\ checks /\ OffsetOverflows(page_number)
          /\ last' = SearchCall(c, page_number, cond, checks, "Panic", NoSearch, 0)
          /\ UNCHANGED query
       \/ /\ ~(checks /\ OffsetOverflows(page_number))
          /\ establish_connection(cond) = "panic"
          /\ last' = SearchCall(c, page_number, cond, checks, "Panic", NoSearch, 1)
          /\ UNCHANGED query
       \/ /\ ~(checks /\ OffsetOverflows(page_number))
          /\ establish_connection(cond) = "connection"
          /\ query' = [pc |-> "loaded", crit |-> c, page |-> page_number,
                       checks |-> checks,
                       result |-> LimitOffset(Ordered(Filtered(store, c), tie),
                                              AsI64(page_size),
                                              AsI64(Offset(page_number))),
                       matched |-> Cardinality(Filtered(store, c))]
          /\ UNCHANGED last
    /\ UNCHANGED <<store, scan, calc>>

\* search_by from count_clients to its return.
SearchByCount ==
    /\ query.pc = "loaded"
    /\ LET total_count == count_clients(store, query.crit)
           total_pages == calculate_total_pages(total_count, AsI64(page_size))
       IN last' =
            IF query.checks /\ CalcOverflows(total_count, AsI64(page_size))
            THEN SearchCall(query.crit, query.page, "ok", query.checks,
                            "Panic", NoSearch, 1)
            ELSE SearchCall(query.crit, query.page, "ok", query.checks, "Ok",
                            Search(query.page, AsUsize(total_pages), query.crit,
                                   query.result), 1)
    /\ query' = [query EXCEPT !.pc = "idle"]
    /\ UNCHANGED <<store, scan, calc>>

\* The tables the call starts on: a full page of rows, and one row more.
InitRace ==
    /\ store \in {Table(n, 1) : n \in PageSize..(PageSize + 1)}
    /\ last = NoCall
    /\ scan = NoScan
    /\ calc = NoCalc
    /\ query = NoQuery

\* The writes of the other callers: an active item of one profile, with no
\* identifier or with identifier 1.
WriteCalls ==
    {in \in ItemCalls :
        /\ in[1].username = 1
        /\ in[1].active
        /\ in[1].client_id \in {None, Some(1)}
        /\ in[2] # "no_config"}

\* The search_by calls: no criteria or active = true and page 1 or 2 when
\* the connection is there; page 0 in a build that checks for overflow; page
\* 1 when the connection is not there.
RaceSearchCalls ==
    {<<c, page_number, "ok", checks, "id_asc">> :
        c \in {AllAbsent, [AllAbsent EXCEPT !.active = Some(TRUE)]},
        page_number \in 1..2, checks \in BOOLEAN}
        \cup {<<AllAbsent, 0, "ok", TRUE, "id_asc">>}
        \cup {<<AllAbsent, 1, cond, FALSE, "id_asc">> : cond \in ConnConds \ {"ok"}}

NextRace ==
    \/ \E in \in RaceSearchCalls :
          SearchByLoad(in[1], in[2], in[3], in[4], in[5])
    \/ SearchByCount
    \/ \E in \in WriteCalls : Add(in[1], in[2])
    \/ \E in \in WriteCalls : Update(in[1], in[2])
    \/ \E in \in WriteCalls : LogicallyDelete(in[1], in[2])
    \/ \E in \in WriteCalls : PermanentlyDelete(in[1], in[2])

SpecRace == InitRace /\ [][NextRace]_vars

(***************************************************************************)
(* Properties of the CRUD operations, checked under Spec.                  *)
(***************************************************************************)

\* The identifier column is the key of the table: no two rows share one, and
\* every stored row has one.
KeyIsUnique ==
    /\ \A r \in store : r.client_id # None
    /\ \A r, q \in store : r.client_id = q.client_id => r = q

IdOps == {"update", "logically_delete", "permanently_delete"}

\* C1: update, logically_delete and permanently_delete called with an item
\* whose identifier is absent return the missing-identifier error, call
\* establish_connection zero times and leave the stored rows as they were.
C1_AbsentIdRejectedBeforeStore ==
    [][(last'.op \in IdOps /\ id(last'.item) = None) =>
          /\ last'.result = "Err"
          /\ last'.err = "NoIDError"
          /\ last'.conns = 0
          /\ store' = store]_vars

C1_Witness ==
    /\ last.op \in IdOps
    /\ id(last.item) = None
    /\ last.result = "Err"
    /\ last.cond # "ok"
    /\ store # {}

\* C2: a successful logically_delete of an item whose identifier a stored row
\* has leaves search_by_id of that identifier returning Some(row) with that
\* identifier and active = false; a successful permanently_delete of the same
\* identifier right after it leaves search_by_id returning None.
C2_SoftThenHardDelete ==
    [][/\ (/\ last'.op = "logically_delete"
           /\ last'.result = "Ok"
           /\ id(last'.item) \subseteq StoredIds(store))
          => \A i \in id(last'.item) :
                /\ SearchByIdFound(store', i) # None
                /\ \A r \in SearchByIdFound(store', i) :
                      r.client_id = Some(i) /\ r.active = FALSE
       /\ (/\ last'.op = "permanently_delete"
           /\ last'.result = "Ok"
           /\ last'.follows # None
           /\ last'.follows = id(last'.item))
          => \A i \in id(last'.item) : SearchByIdFound(store', i) = None]_vars

C2_Witness ==
    /\ last.op = "permanently_delete"
    /\ last.result = "Ok"
    /\ last.follows # None
    /\ last.follows = id(last.item)
    /\ store # {}

\* C3: after a successful add, search_by_id of the identifier the inserted
\* row got returns Some(row) whose active, username, pwd and birth_date are
\* those of the item that was added.
C3_AddThenFind ==
    (last.op = "add" /\ last.result = "Ok") =>
        /\ last.assigned # None
        /\ \A i \in last.assigned :
              /\ SearchByIdFound(store, i) # None
              /\ \A r \in SearchByIdFound(store, i) :
                    /\ r.client_id = Some(i)
                    /\ r.active = last.item.active
                    /\ r.username = last.item.username
                    /\ r.pwd = last.item.pwd
                    /\ r.birth_date = last.item.birth_date

C3_Witness ==
    /\ last.op = "add"
    /\ last.result = "Ok"
    /\ last.item.active = FALSE
    /\ Cardinality(store) = 2

\* C9: a successful add inserts exactly one row and leaves the rows that were
\* there unchanged, and an identifier present on the item does not make add
\* fail: with the connection there, add of such an item returns Ok.
C9_AddIgnoresItemId ==
    [][(last'.op = "add" /\ last'.cond = "ok") =>
          /\ last'.result = "Ok" =>
                /\ store \subseteq store'
                /\ Cardinality(store') = Cardinality(store) + 1
          /\ id(last'.item) # None => last'.result = "Ok"]_vars

\* C10: a successful logically_delete(item) keeps every row whose identifier
\* differs from the item's as it is, keeps the identifier, username, pwd and
\* birth_date of the row whose identifier equals the item's and sets its
\* active to false, and neither adds nor removes a row.
C10_LogicalDeleteFrame ==
    [][(last'.op = "logically_delete" /\ last'.result = "Ok") =>
          /\ \A r \in store : r.client_id # id(last'.item) => r \in store'
          /\ \A r \in store : r.client_id = id(last'.item) =>
                [r EXCEPT !.active = FALSE] \in store'
          /\ \A q \in store' : \E r \in store : r.client_id = q.client_id
          /\ Cardinality(store') = Cardinality(store)]_vars

C10_Witness ==
    /\ last.op = "logically_delete"
    /\ last.result = "Ok"
    /\ Cardinality(store) = 2
    /\ \E r \in store :
          /\ r.client_id = id(last.item)
          /\ r.username # last.item.username
          /\ r.pwd # last.item.pwd
          /\ r.birth_date # last.item.birth_date
    /\ \E r \in store : r.client_id # id(last.item) /\ r.active

\* C11: a successful update(item) puts the item's active, username, pwd and
\* birth_date on the row whose identifier equals the item's and keeps that
\* row's identifier, keeps every other row as it is, and neither adds nor
\* removes a row.
C11_UpdateReplacesRow ==
    [][(last'.op = "update" /\ last'.result = "Ok") =>
          /\ \A r \in store : r.client_id # id(last'.item) => r \in store'
          /\ \A r \in store : r.client_id = id(last'.item) =>
                [client_id |-> r.client_id,
                 active |-> last'.item.active,
                 username |-> last'.item.username,
                 pwd |-> last'.item.pwd,
                 birth_date |-> last'.item.birth_date] \in store'
          /\ \A q \in store' : \E r \in store : r.client_id = q.client_id
          /\ Cardinality(store') = Cardinality(store)]_vars

\* The last call was a successful update of a stored row, beside a row that
\* differs from the item.
C11_Witness ==
    /\ last.op = "update"
    /\ last.result = "Ok"
    /\ Cardinality(store) = 2
    /\ \E r \in store :
          /\ r.client_id = id(last.item)
          /\ r.active = last.item.active
          /\ r.username = last.item.username
          /\ r.pwd = last.item.pwd
          /\ r.birth_date = last.item.birth_date
    /\ \E r \in store :
          /\ r.client_id # id(last.item)
          /\ r.active # last.item.active
          /\ r.username # last.item.username

\* C12: is_deleted of a row read back from the store is true exactly when
\* the row is marked as logically deleted, which is what logically_delete
\* writes (active = false), and set_deleted(d) leaves is_deleted returning d;
\* the row read back right after its logically_delete reports true, and the
\* row of an item that was added as active reports false.
C12_IsDeletedTracksLogicalDelete ==
    /\ (last.op = "search_by_id" /\ last.result = "Ok") =>
          \A r \in last.found :
             /\ is_deleted(r) = (r.active = FALSE)
             /\ \A d \in BOOLEAN : is_deleted(set_deleted(r, d)) = d
             /\ last.follows = r.client_id => is_deleted(r) = TRUE
    /\ (last.op = "add" /\ last.result = "Ok" /\ last.item.active) =>
          \A i \in last.assigned :
             \A r \in SearchByIdFound(store, i) : is_deleted(r) = FALSE

\* Where the row of identifier i is in its lifecycle.
RowState(st, i) ==
    IF i \notin StoredIds(st)
    THEN "not_persisted"
    ELSE IF \E r \in st : r.client_id = Some(i) /\ r.active
         THEN "persisted_active"
         ELSE "persisted_inactive"

\* The lifecycle: created active by add, flagged inactive, or removed.
Lifecycle ==
    {<<"not_persisted", "persisted_active">>,
     <<"persisted_active", "persisted_inactive">>,
     <<"persisted_active", "not_persisted">>,
     <<"persisted_inactive", "not_persisted">>}

\* C13: every call of add, update, logically_delete or permanently_delete
\* leaves each identifier's row where it was or moves it along the lifecycle
\* not-persisted -> persisted-active, persisted-active -> persisted-inactive,
\* persisted -> removed; in particular no call moves a persisted-inactive
\* row back to active.
C13_RowsFollowLifecycle ==
    [][\A i \in Ids :
          \/ RowState(store', i) = RowState(store, i)
          \/ <<RowState(store, i), RowState(store', i)>> \in Lifecycle]_vars

\* C15: with the connection there, update, logically_delete and
\* permanently_delete called with a present identifier that no stored row
\* has return Ok and leave the stored rows as they were; and a
\* logically_delete or permanently_delete that repeats the successful call
\* before it on the same item returns Ok and leaves the stored rows as that
\* call left them.
C15_NoMatchChangesNothing ==
    [][/\ (/\ last'.op \in IdOps
           /\ last'.cond = "ok"
           /\ id(last'.item) # None
           /\ ~(id(last'.item) \subseteq StoredIds(store)))
          => (last'.result = "Ok" /\ store' = store)
       /\ (/\ last'.op \in {"logically_delete", "permanently_delete"}
           /\ last'.cond = "ok"
           /\ last.op = last'.op
           /\ last.result = "Ok"
           /\ last'.item = last.item)
          => (last'.result = "Ok" /\ store' = store)]_vars

\* The last call was a successful update with an identifier no stored row
\* has, on a table that holds a row.
C15_Witness ==
    /\ last.op = "update"
    /\ last.result = "Ok"
    /\ id(last.item) # None
    /\ ~(id(last.item) \subseteq StoredIds(store))
    /\ store # {}

(***************************************************************************)
(* Properties of search_by, checked under SpecSearch, and of               *)
(* calculate_total_pages, checked under SpecCalc.                          *)
(***************************************************************************)

\* The least k with k * p >= n, for n >= 0 and p > 0.
CeilDiv(n, p) ==
    CHOOSE k \in 0..n : k * p >= n /\ (k = 0 \/ (k - 1) * p < n)

RECURSIVE Concat(_)
Concat(pages) ==
    IF pages = <<>> THEN <<>> ELSE Head(pages) \o Concat(Tail(pages))

Range(seq) == {seq[k] : k \in 1..Len(seq)}

\* The rows the session's criteria select, and the number of pages they fill.
ScanMatching == Filtered(store, scan.crit)
ScanPages == CeilDiv(Cardinality(ScanMatching), PageSize)

\* The session started at page 1 and has got every page up to the last.
ScanComplete ==
    /\ scan.first = 1
    /\ ScanMatching # {}
    /\ Len(scan.pages) = ScanPages

\* The pages got hold every selected row once, each page before the last
\* holds PageSize rows and the last one the remainder.
PagesAreComplete ==
    /\ Len(Concat(scan.pages)) = Cardinality(ScanMatching)
    /\ Range(Concat(scan.pages)) = ScanMatching
    /\ \A k \in 1..Len(scan.pages) :
          Len(scan.pages[k]) =
             IF k < ScanPages
             THEN PageSize
             ELSE Cardinality(ScanMatching) - PageSize * (ScanPages - 1)

DistinctUsernames(rows) ==
    \A q, r \in rows : q.username = r.username => q = r

TotalPagesOfLast ==
    AsUsize(calculate_total_pages(count_clients(store, last.crit), AsI64(page_size)))

\* C5: a search_by call with a page number greater than total_pages returns
\* Ok with no rows, the total_pages of the criteria, the caller's page
\* number and the caller's criteria.
C5_PageBeyondLastIsEmpty ==
    (/\ last.op = "search_by"
     /\ last.cond = "ok"
     /\ last.page > TotalPagesOfLast)
    => /\ last.result = "Ok"
       /\ last.search.result = <<>>
       /\ last.search.total_pages = CeilDiv(count_clients(store, last.crit), PageSize)
       /\ last.search.page = last.page
       /\ last.search.criteria = last.crit

\* C6: the rows search_by selects and count_clients counts are the stored
\* rows equal to the criteria on every present field (client_id, active,
\* username, pwd, birth_date), and every row of a returned page is one.
C6_EveryPresentFieldFilters ==
    (last.op = "search_by" /\ last.result = "Ok")
    => /\ Filtered(store, last.crit)
            = {r \in store : MatchesEveryField(r, last.crit)}
       /\ count_clients(store, last.crit)
            = Cardinality({r \in store : MatchesEveryField(r, last.crit)})
       /\ \A r \in Range(last.search.result) : MatchesEveryField(r, last.crit)

\* C7: every call of a caller-facing operation ends by returning Ok or Err,
\* whatever its arguments and whatever the connection's condition.
C7_EveryCallReturns ==
    last.result \in {"Ok", "Err"}

\* C8: calculate_total_pages returns 0 when page_size <= 0, and for
\* page_size > 0 and total_count >= 0 returns ceil(total_count / page_size),
\* which is not negative.
C8_TotalPagesIsCeiling ==
    calc.result # "none" =>
        /\ calc.page_size <= 0 => (calc.result = "Ok" /\ calc.value = 0)
        /\ (calc.page_size > 0 /\ calc.total_count >= 0) =>
              /\ calc.result = "Ok"
              /\ calc.value = CeilDiv(calc.total_count, calc.page_size)
              /\ calc.value >= 0

(***************************************************************************)
(* Properties of search_by among other callers' writes, checked under      *)
(* SpecRace.                                                               *)
(***************************************************************************)

\* C14: the Search a search_by call returns is consistent with one state of
\* the table, whatever writes came between its queries: its total_pages is
\* ceil(M / 15), M being the number of rows its criteria selected in the
\* table its page rows were loaded from.
C14_SearchIsOneSnapshot ==
    (/\ query.pc = "idle"
     /\ last.op = "search_by"
     /\ last.result = "Ok")
    => last.search.total_pages = CeilDiv(query.matched, PageSize)

====
